---------------------------- MODULE Spec2Model ----------------------------
(***************************************************************************)
(* A model of the OpenAlex works gatherer (src/gather_works.py) and of the *)
(* ISSN deduplication of the Scopus matcher (src/old/match_issns.py).      *)
(*                                                                         *)
(* Python strings are sequences of one-character strings; JSON values are  *)
(* tagged records; Python exceptions are results of kind "raise".          *)
(***************************************************************************)
EXTENDS Integers, Sequences, FiniteSets, TLC

VARIABLES
    \* get_row called on one work
    work, matched, rowRes, rpc,
    \* yield_output_df: one generator over the bucket listing
    chunksize, files_to_ignore, source_ids_matched, cur, rows, batches,
    expected, nobjs, nlines, ypc,
    \* main: the writer loop of each run over one output directory
    files, file_idx, from_idx, nbatch, wlog, mpc,
    \* get_source_ids_matched on one file text
    fp, idsRes, ipc,
    \* the ISSN matcher's melt / normalise / deduplicate on one Scopus table
    df_scopus, issnRes, spc

rowVars   == <<work, matched, rowRes, rpc>>
yieldVars == <<chunksize, files_to_ignore, source_ids_matched, cur, rows,
               batches, expected, nobjs, nlines, ypc>>
mainVars  == <<files, file_idx, from_idx, nbatch, wlog, mpc>>
idsVars   == <<fp, idsRes, ipc>>
issnVars  == <<df_scopus, issnRes, spc>>
vars      == <<rowVars, yieldVars, mainVars, idsVars, issnVars>>

-----------------------------------------------------------------------------
(* Bounds of the model *)

\* longest remainder after the prefix in an enumerated identifier
MaxRem == 2
\* most locations of an enumerated work
MaxLocs == 2
\* largest chunksize of a generator
MaxChunk == 3
\* most objects the bucket lists, and most lines read from them in all
MaxObjs == 3
MaxLines == 4
\* most batches one run of main writes, and the indices a directory may hold
\* files at before the run
MaxBatches == 3
MaxPre == 3
\* longest text of a matched-source-id file
MaxTxt == 5
\* most rows of a Scopus table
MaxRows == 2

-----------------------------------------------------------------------------
(* Python strings *)

\* the letters among the code points below 256 that str.lower() changes, and
\* what it changes each to: A to Z, and the Latin-1 capitals
Uppers == <<"A","B","C","D","E","F","G","H","I","J","K","L","M","N",
            "O","P","Q","R","S","T","U","V","W","X","Y","Z","À","Á",
            "Â","Ã","Ä","Å","Æ","Ç","È","É","Ê","Ë","Ì","Í","Î","Ï",
            "Ð","Ñ","Ò","Ó","Ô","Õ","Ö","Ø","Ù","Ú","Û","Ü","Ý","Þ">>
Lowers == <<"a","b","c","d","e","f","g","h","i","j","k","l","m","n",
            "o","p","q","r","s","t","u","v","w","x","y","z","à","á",
            "â","ã","ä","å","æ","ç","è","é","ê","ë","ì","í","î","ï",
            "ð","ñ","ò","ó","ô","õ","ö","ø","ù","ú","û","ü","ý","þ">>
DigitChars == <<"0","1","2","3","4","5","6","7","8","9">>
\* the characters str.strip() removes, among the code points below 256:
\* tab, newline, vertical tab, form feed, carriage return, the separators
\* 28 to 31, space, next line (133) and no-break space (160)
Whitespace ==
    {" ", "\t", "\n", "", "\f", "\r", "", "", "", "", "", " "}
\* the characters int() takes for blanks around the number: it leaves the
\* separators 28 to 31 alone
IntWhitespace == Whitespace \ {"", "", "", ""}

IsDigit(c) == \E i \in 1..10 : DigitChars[i] = c
DigitVal(c) == (CHOOSE i \in 1..10 : DigitChars[i] = c) - 1

\* the case mappings of the letters
ToLower == [c \in {Uppers[i] : i \in DOMAIN Uppers} |->
                Lowers[CHOOSE i \in DOMAIN Uppers : Uppers[i] = c]]
ToUpper == [c \in {Lowers[i] : i \in DOMAIN Lowers} |->
                Uppers[CHOOSE i \in DOMAIN Lowers : Lowers[i] = c]]

\* one character of str.lower()
LowerChar(c) == IF c \in DOMAIN ToLower THEN ToLower[c] ELSE c
\* what str.upper() puts for one character: sharp s becomes two letters; the
\* micro sign and y with diaeresis go to capitals above code point 255, Greek
\* capital mu and Y with diaeresis, written here by their code points
UpperChar(c) ==
    CASE c = "ß" -> <<"S", "S">>
      [] c = "µ" -> <<"U+039C">>
      [] c = "ÿ" -> <<"U+0178">>
      [] c \in DOMAIN ToUpper -> <<ToUpper[c]>>
      [] OTHER -> <<c>>

\* str.lower(), str.upper()
Lower(s) == [i \in 1..Len(s) |-> LowerChar(s[i])]
RECURSIVE Upper(_)
Upper(s) == IF s = <<>> THEN <<>> ELSE UpperChar(s[1]) \o Upper(Tail(s))

\* s[i:] for a 1-based i
From(s, i) == SubSeq(s, i, Len(s))

\* s.startswith(p), s.endswith(p)
StartsWith(s, p) == Len(p) <= Len(s) /\ SubSeq(s, 1, Len(p)) = p
EndsWith(s, p) == Len(p) <= Len(s) /\ From(s, Len(s) - Len(p) + 1) = p

\* p in s (substring test)
Contains(s, p) == \E i \in 1..(Len(s) - Len(p) + 1) : SubSeq(s, i, i + Len(p) - 1) = p

\* s.replace(p, ""): every non-overlapping occurrence of p, left to right
RECURSIVE Remove(_, _)
Remove(s, p) ==
    IF s = <<>> \/ p = <<>> THEN s
    ELSE IF StartsWith(s, p) THEN Remove(From(s, Len(p) + 1), p)
    ELSE <<s[1]>> \o Remove(Tail(s), p)

\* s with the leading and trailing characters of the set ws removed
RECURSIVE LStrip(_, _)
LStrip(s, ws) == IF s # <<>> /\ s[1] \in ws THEN LStrip(Tail(s), ws) ELSE s
RECURSIVE RStrip(_, _)
RStrip(s, ws) ==
    IF s # <<>> /\ s[Len(s)] \in ws THEN RStrip(SubSeq(s, 1, Len(s) - 1), ws) ELSE s

\* s.strip()
Strip(s) == RStrip(LStrip(s, Whitespace), Whitespace)

\* s.split("\n")
RECURSIVE SplitLines(_)
SplitLines(s) ==
    IF \E i \in 1..Len(s) : s[i] = "\n"
    THEN LET i == CHOOSE k \in 1..Len(s) : s[k] = "\n" /\ \A j \in 1..(k-1) : s[j] # "\n"
         IN  <<SubSeq(s, 1, i - 1)>> \o SplitLines(From(s, i + 1))
    ELSE <<s>>

\* the digits of an integer literal: groups of digits joined by single underscores
IntBody(s) ==
    /\ s # <<>>
    /\ \A i \in 1..Len(s) : IsDigit(s[i]) \/ s[i] = "_"
    /\ IsDigit(s[1]) /\ IsDigit(s[Len(s)])
    /\ \A i \in 1..(Len(s) - 1) : ~(s[i] = "_" /\ s[i+1] = "_")

RECURSIVE DigitsValue(_, _)
DigitsValue(s, acc) ==
    IF s = <<>> THEN acc
    ELSE IF s[1] = "_" THEN DigitsValue(Tail(s), acc)
    ELSE DigitsValue(Tail(s), 10 * acc + DigitVal(s[1]))

\* int(s): surrounding blanks stripped, an optional sign, then the digits;
\* anything else is a ValueError
PyInt(s) ==
    LET t    == RStrip(LStrip(s, IntWhitespace), IntWhitespace)
        sign == t # <<>> /\ t[1] \in {"+", "-"}
        body == IF sign THEN Tail(t) ELSE t
    IN  IF IntBody(body)
        THEN [ok |-> TRUE,
              v  |-> IF sign /\ t[1] = "-" THEN 0 - DigitsValue(body, 0)
                     ELSE DigitsValue(body, 0)]
        ELSE [ok |-> FALSE]

-----------------------------------------------------------------------------
(* JSON values and dict access *)

Absent    == [tag |-> "absent"]
None      == [tag |-> "null"]
Str(s)    == [tag |-> "str", v |-> s]
List(l)   == [tag |-> "list", v |-> l]
Dict(d)   == [tag |-> "dict", v |-> d]
Bool(b)   == [tag |-> "bool", v |-> b]
Num(n)    == [tag |-> "int", v |-> n]
StrSet(S) == [tag |-> "strset", v |-> S]

\* d.get(k): None for a missing key
Get(d, k) == IF d.v[k].tag = "absent" THEN None ELSE d.v[k]
\* d.get(k, default)
GetDefault(d, k, default) == IF d.v[k].tag = "absent" THEN default ELSE d.v[k]
\* d[k] raises KeyError for a missing key
HasKey(d, k) == d.v[k].tag # "absent"

\* truth value of a Python object
Truthy(x) ==
    CASE x.tag = "null" -> FALSE
      [] x.tag \in {"str", "list"} -> x.v # <<>>
      [] x.tag = "dict" -> \E k \in DOMAIN x.v : x.v[k].tag # "absent"
      [] x.tag = "bool" -> x.v
      [] x.tag = "int" -> x.v # 0
      [] OTHER -> FALSE

-----------------------------------------------------------------------------
(* get_row and its helpers *)

work_prefix ==
    <<"h","t","t","p","s",":","/","/","o","p","e","n","a","l","e","x",".","o","r","g","/","w">>
source_prefix ==
    <<"h","t","t","p","s",":","/","/","o","p","e","n","a","l","e","x",".","o","r","g","/","s">>

\* the dicts of a work, with every key they may carry
EmptySource     == [id |-> Absent, type |-> Absent, publisher |-> Absent]
EmptyLocation   == [source |-> Absent]
EmptyAuthorship == [countries |-> Absent]
EmptyOpenAccess == [is_oa |-> Absent, oa_status |-> Absent]
EmptyWork ==
    [id |-> Absent, locations |-> Absent, primary_location |-> Absent,
     authorships |-> Absent, open_access |-> Absent, doi |-> Absent,
     publication_year |-> Absent, language |-> Absent, type |-> Absent,
     type_crossref |-> Absent, referenced_works_count |-> Absent,
     authors_count |-> Absent, cited_by_count |-> Absent,
     institutions_distinct_count |-> Absent, is_retracted |-> Absent]

Raise(exc)  == [kind |-> "raise", exc |-> exc]
ReturnNone  == [kind |-> "none"]
ReturnRow(r) == [kind |-> "row", row |-> r]

get_source_type(w) ==
    LET primary_location == Get(w, "primary_location")
    IN  IF Truthy(primary_location)
        THEN LET source == Get(primary_location, "source")
             IN  IF Truthy(source) THEN Get(source, "type") ELSE None
        ELSE None

get_publisher(w) ==
    LET primary_location == Get(w, "primary_location")
    IN  IF Truthy(primary_location)
        THEN LET source == Get(primary_location, "source")
             IN  IF Truthy(source) THEN Get(source, "publisher") ELSE None
        ELSE None

\* the countries list built by the two loops, in order, with repetitions
RECURSIVE CountriesOf(_)
CountriesOf(authorships) ==
    IF authorships = <<>> THEN <<>>
    ELSE LET this_countries == Get(authorships[1], "countries")
         IN  (IF Truthy(this_countries) THEN this_countries.v ELSE <<>>)
             \o CountriesOf(Tail(authorships))

\* list(set(countries)): the order of the result is not determined, so the
\* value is kept as the set
get_countries(w) ==
    LET authorships == Get(w, "authorships")
    IN  IF Truthy(authorships)
        THEN LET countries == CountriesOf(authorships.v)
             IN  IF countries # <<>>
                 THEN StrSet({countries[i] : i \in 1..Len(countries)})
                 ELSE None
        ELSE None

\* the logger.error call of the invalid-work-id branches: its f-string holds
\* the expression  work['id']. Skipping , an attribute access on work['id']
LogInvalidWorkId(w) ==
    IF HasKey(w, "id") THEN [raised |-> TRUE, exc |-> "AttributeError"]
    ELSE [raised |-> TRUE, exc |-> "KeyError"]

InvalidWorkId(w) ==
    LET log == LogInvalidWorkId(w)
    IN  IF log.raised THEN Raise(log.exc) ELSE ReturnNone

\* the test that lets a source id through to int()
SourceIdHasPrefix(source_id) == Contains(Lower(source_id), source_prefix)

\* a loop that stops at the first location it cannot use, instead of going on
RECURSIVE SourceIdsOfStopAtBad(_)
SourceIdsOfStopAtBad(locations) ==
    IF locations = <<>> THEN <<>>
    ELSE LET location == locations[1]
         IN  IF Truthy(Get(location, "source")) /\ Truthy(Get(Get(location, "source"), "id"))
             THEN LET source_id == Get(location, "source").v.id.v
                      n == PyInt(Remove(Lower(source_id), source_prefix))
                  IN  IF SourceIdHasPrefix(source_id) /\ n.ok
                      THEN <<n.v>> \o SourceIdsOfStopAtBad(Tail(locations))
                      ELSE <<>>
             ELSE <<>>

\* the source_ids list of the loop over locations
RECURSIVE SourceIdsOf(_)
SourceIdsOf(locations) ==
    IF locations = <<>> THEN <<>>
    ELSE LET location == locations[1]
             rest == SourceIdsOf(Tail(locations))
         IN  IF Truthy(Get(location, "source")) /\ Truthy(Get(Get(location, "source"), "id"))
             THEN LET source_id == Get(location, "source").v.id.v
                  IN  IF ~SourceIdHasPrefix(source_id) THEN rest
                      ELSE LET n == PyInt(Remove(Lower(source_id), source_prefix))
                           IN  IF ~n.ok THEN rest ELSE <<n.v>> \o rest
             ELSE rest

\* a classifier that answers "unknown" for an empty set of source ids
ClassifyUnknownWhenEmpty(source_ids, ids_matched) ==
    IF source_ids = {} THEN None
    ELSE IF Cardinality(source_ids \cap ids_matched) # 0 THEN Bool(TRUE) ELSE Bool(FALSE)

\* the classification of a non-empty locations list
Classify(source_ids, ids_matched) ==
    IF Cardinality(source_ids \cap ids_matched) # 0 THEN Bool(TRUE) ELSE Bool(FALSE)

InMatchSet(w, ids_matched) ==
    LET locations == Get(w, "locations")
    IN  IF Truthy(locations)
        THEN LET l == SourceIdsOf(locations.v)
             IN  Classify({l[i] : i \in 1..Len(l)}, ids_matched)
        ELSE None

\* work.get("open_access", {}): the default stands in for a missing key only
OpenAccessOf(w) == GetDefault(w, "open_access", Dict(EmptyOpenAccess))

\* work.get("doi", None) is not None
HasDoi(w) == GetDefault(w, "doi", None).tag # "null"

\* the test that lets a work id through to int()
WorkIdHasPrefix(work_id) == Contains(Lower(work_id), work_prefix)

BuildRow(w, work_id, ids_matched) ==
    IF OpenAccessOf(w).tag # "dict" THEN Raise("AttributeError")
    ELSE ReturnRow(
        [work_id |-> work_id,
         in_match_set |-> InMatchSet(w, ids_matched),
         publication_year |-> Get(w, "publication_year"),
         language |-> Get(w, "language"),
         publisher |-> get_publisher(w),
         type |-> Get(w, "type"),
         type_crossref |-> Get(w, "type_crossref"),
         countries |-> get_countries(w),
         referenced_works_count |-> Get(w, "referenced_works_count"),
         authors_count |-> Get(w, "authors_count"),
         cited_by_count |-> Get(w, "cited_by_count"),
         institutions_distinct_count |-> Get(w, "institutions_distinct_count"),
         is_oa |-> Get(OpenAccessOf(w), "is_oa"),
         oa_status |-> Get(OpenAccessOf(w), "oa_status"),
         is_retracted |-> Get(w, "is_retracted"),
         source_type |-> get_source_type(w),
         has_doi |-> Bool(HasDoi(w))])

get_row(w, ids_matched) ==
    LET work_id == Get(w, "id")
    IN  IF ~Truthy(work_id) \/ ~WorkIdHasPrefix(work_id.v) THEN InvalidWorkId(w)
        ELSE LET n == PyInt(Remove(Lower(work_id.v), work_prefix))
             IN  IF ~n.ok THEN InvalidWorkId(w)
                 ELSE BuildRow(w, n.v, ids_matched)

-----------------------------------------------------------------------------
(* The works get_row is called on *)

SeqsUpTo(S, n) == UNION {[1..k -> S] : k \in 0..n}

\* the prefix as OpenAlex writes it, with the entity letter in upper case
WorkPrefixW   == SubSeq(work_prefix, 1, 21) \o <<"W">>
SourcePrefixS == SubSeq(source_prefix, 1, 21) \o <<"S">>

RemChars == {"0", "7", "-", " ", "\f", "", "_", "x", "À"}
LeadStrs == {<<>>, <<"7">>, <<"x">>}
WorkPrefixForms ==
    {work_prefix, WorkPrefixW, Upper(work_prefix), SourcePrefixS, <<>>}

IdStrs ==
    {lead \o pfx \o rem :
        lead \in LeadStrs, pfx \in WorkPrefixForms, rem \in SeqsUpTo(RemChars, MaxRem)}

WithKey(d, k, x) == Dict([d.v EXCEPT ![k] = x])
ValidId == Str(WorkPrefixW \o <<"1", "2">>)
ValidWork == WithKey(Dict(EmptyWork), "id", ValidId)

\* family 1: every form of the work id, nothing else in the work
IdWorks ==
    {Dict(EmptyWork)} \cup {WithKey(Dict(EmptyWork), "id", x) : x \in {None} \cup {Str(t) : t \in IdStrs}}

SourceIdStrs ==
    { SourcePrefixS \o <<"1">>, SourcePrefixS \o <<"2">>, source_prefix \o <<"3">>,
      Upper(source_prefix) \o <<"1">>, SourcePrefixS \o <<"x">>,
      WorkPrefixW \o <<"1">>, <<"b", "a", "d">>, <<>> }
SourceOpts ==
    {Absent, None, Dict(EmptySource), Dict([EmptySource EXCEPT !.id = None])}
    \cup {Dict([EmptySource EXCEPT !.id = Str(t)]) : t \in SourceIdStrs}
LocationOpts == {Dict([source |-> x]) : x \in SourceOpts}
MatchedSets == SUBSET {1, 2}

\* family 2: a valid id and every form of the locations
LocWorks ==
    {WithKey(ValidWork, "locations", x) :
        x \in {Absent, None} \cup {List(l) : l \in SeqsUpTo(LocationOpts, MaxLocs)}}

SourceFull == Dict([id |-> Str(SourcePrefixS \o <<"1">>), type |-> Str(<<"j">>),
                    publisher |-> Str(<<"p">>)])
PrimaryLocationOpts ==
    {Absent, None, Dict(EmptyLocation), Dict([source |-> None]),
     Dict([source |-> Dict(EmptySource)]),
     Dict([source |-> Dict([EmptySource EXCEPT !.type = Str(<<"j">>), !.publisher = None])]),
     Dict([source |-> SourceFull])}
AuthorshipsOpts ==
    {Absent, None, List(<<>>), List(<<Dict(EmptyAuthorship)>>),
     List(<<Dict([countries |-> None])>>), List(<<Dict([countries |-> List(<<>>)])>>),
     List(<<Dict([countries |-> List(<<"US">>)]), Dict([countries |-> None]),
            Dict([countries |-> List(<<"US", "CA">>)])>>)}
OpenAccessOpts ==
    {Absent, None, Dict(EmptyOpenAccess),
     Dict([is_oa |-> Bool(TRUE), oa_status |-> None]),
     Dict([is_oa |-> Bool(FALSE), oa_status |-> Str(<<"g">>)])}
DoiOpts == {Absent, None, Str(<<"d">>)}
LanguageOpts == {Absent, None, Str(<<"e", "n">>)}

\* family 3: a valid id and every combination of absent, null and present
\* nested fields
FieldWorks ==
    {Dict([ValidWork.v EXCEPT !.primary_location = pl, !.authorships = au,
                              !.open_access = oa, !.doi = doi, !.language = lang,
                              !.locations = loc]) :
        pl \in PrimaryLocationOpts, au \in AuthorshipsOpts, oa \in OpenAccessOpts,
        doi \in DoiOpts, lang \in LanguageOpts,
        loc \in {Absent, List(<<Dict([source |-> SourceFull])>>)}}

RowInputs ==
    (IdWorks \X {{}}) \cup (LocWorks \X MatchedSets) \cup (FieldWorks \X {{1}})

-----------------------------------------------------------------------------
(* Each flow of the program runs on its own; the others stay idle *)

Pending == [kind |-> "pending"]

RowIdle ==
    work = Absent /\ matched = {} /\ rowRes = Pending /\ rpc = "idle"
YieldIdle ==
    /\ chunksize = 1 /\ files_to_ignore = {} /\ source_ids_matched = {}
    /\ cur = <<>> /\ rows = <<>> /\ batches = <<>> /\ expected = <<>>
    /\ nobjs = 0 /\ nlines = 0 /\ ypc = "idle"
MainIdle ==
    /\ files = {} /\ file_idx = <<>> /\ from_idx = <<>> /\ nbatch = <<>>
    /\ wlog = <<>> /\ mpc = <<>>
IdsIdle == fp = <<>> /\ idsRes = Pending /\ ipc = "idle"
IssnIdle == df_scopus = <<>> /\ issnRes = Pending /\ spc = "idle"

-----------------------------------------------------------------------------
(* get_row on one work *)

RowInit ==
    /\ \E in \in RowInputs : work = in[1] /\ matched = in[2]
    /\ rowRes = Pending /\ rpc = "call"
    /\ YieldIdle /\ MainIdle /\ IdsIdle /\ IssnIdle

CallGetRow ==
    /\ rpc = "call"
    /\ rowRes' = get_row(work, matched)
    /\ rpc' = "done"
    /\ UNCHANGED <<work, matched, yieldVars, mainVars, idsVars, issnVars>>

RowNext == CallGetRow
SpecRow == RowInit /\ [][RowNext]_vars

-----------------------------------------------------------------------------
(* Properties of get_row *)

Returned == rpc = "done" /\ rowRes.kind = "row"

\* the value of a key is missing or null
NoValue(x) == x.tag \in {"absent", "null"}

\* the work has no locations: key absent, null, or an empty list
NoLocations(w) == NoValue(w.v.locations) \/ w.v.locations.v = <<>>

\* a location carries a source id string
HasSourceIdStr(loc) ==
    /\ loc.v.source.tag = "dict"
    /\ loc.v.source.v.id.tag = "str"

\* the integer a source id string parses to, when it does
SourceIdParses(t) == Contains(Lower(t), source_prefix) /\ PyInt(Remove(Lower(t), source_prefix)).ok
SourceIdValue(t) == PyInt(Remove(Lower(t), source_prefix)).v

\* the set of source ids parsed from the locations of a work, each location
\* taken on its own
ParsedSourceIds(w) ==
    IF NoLocations(w) THEN {}
    ELSE {SourceIdValue(w.v.locations.v[i].v.source.v.id.v) :
            i \in {j \in 1..Len(w.v.locations.v) :
                      /\ HasSourceIdStr(w.v.locations.v[j])
                      /\ SourceIdParses(w.v.locations.v[j].v.source.v.id.v)}}

\* a location get_row cannot use: no source, no source id, or a malformed one
UnusableLocation(loc) ==
    ~(HasSourceIdStr(loc) /\ SourceIdParses(loc.v.source.v.id.v))

\* C2: for a work with a valid id, in_match_set is unknown (None) when the work
\* has no locations (key absent, null or empty list); otherwise it is true iff
\* the source ids parsed from its locations, each location on its own, meet the
\* matched set, and false otherwise; an unusable location does not keep the
\* other locations from being counted.
C2_InMatchSet ==
    Returned =>
        IF NoLocations(work) THEN rowRes.row.in_match_set = None
        ELSE rowRes.row.in_match_set = Bool(ParsedSourceIds(work) \cap matched # {})

\* C2 witness: an unusable location comes before a location whose source id is
\* in the matched set, and the work is classified true
C2_Witness ==
    /\ Returned
    /\ ~NoLocations(work)
    /\ Len(work.v.locations.v) = 2
    /\ UnusableLocation(work.v.locations.v[1])
    /\ ParsedSourceIds(work) \cap matched # {}
    /\ rowRes.row.in_match_set = Bool(TRUE)

\* C3 as stated: the classification is unknown whenever the work supplied no
\* source id to test, and false only when its set of source ids is non-empty and
\* disjoint from the matched set.
C3_UnknownWhenNoSourceIds ==
    Returned =>
        /\ (ParsedSourceIds(work) = {} => rowRes.row.in_match_set = None)
        /\ (rowRes.row.in_match_set = Bool(FALSE) =>
                ParsedSourceIds(work) # {} /\ ParsedSourceIds(work) \cap matched = {})

\* C3 amended: the classification is unknown exactly when the work has no
\* locations; a work with a non-empty locations list is classified false exactly
\* when its parsed source ids are disjoint from the matched set, which includes
\* the list that yields no parseable source id at all.
C3_UnknownOnlyWithoutLocations ==
    Returned =>
        /\ (rowRes.row.in_match_set = None <=> NoLocations(work))
        /\ (rowRes.row.in_match_set = Bool(FALSE) <=>
                ~NoLocations(work) /\ ParsedSourceIds(work) \cap matched = {})
        /\ (~NoLocations(work) /\ ParsedSourceIds(work) = {} =>
                rowRes.row.in_match_set = Bool(FALSE))

\* C3 witness: a non-empty locations list that yields no parseable source id,
\* classified false
C3_Witness ==
    /\ Returned
    /\ ~NoLocations(work)
    /\ \A i \in 1..Len(work.v.locations.v) : UnusableLocation(work.v.locations.v[i])
    /\ rowRes.row.in_match_set = Bool(FALSE)

\* C6: for a work with a valid id get_row returns a row and never raises,
\* whichever nested fields are absent or null; a field whose data is absent or
\* null is None in the row, and has_doi is false exactly when doi is absent or
\* null.
C6_NullTolerant ==
    (rpc = "done" /\ work.v.id = ValidId) =>
        /\ rowRes.kind = "row"
        /\ (rowRes.row.has_doi = Bool(FALSE) <=> NoValue(work.v.doi))
        /\ (NoValue(work.v.language) => rowRes.row.language = None)
        /\ (NoValue(work.v.open_access) =>
                rowRes.row.is_oa = None /\ rowRes.row.oa_status = None)
        /\ (NoValue(work.v.primary_location) =>
                rowRes.row.publisher = None /\ rowRes.row.source_type = None)
        /\ (NoValue(work.v.authorships) => rowRes.row.countries = None)
        /\ (NoValue(work.v.locations) => rowRes.row.in_match_set = None)

\* an identifier in canonical form: the prefix, compared without regard to case,
\* followed by one or more decimal digits
Canonical(t, prefix) ==
    /\ StartsWith(Lower(t), prefix)
    /\ Len(t) > Len(prefix)
    /\ \A i \in (Len(prefix) + 1)..Len(t) : IsDigit(t[i])
CanonicalValue(t, prefix) == DigitsValue(From(t, Len(prefix) + 1), 0)

\* C7: get_row accepts a work id only if, compared case-insensitively, it is
\* the work prefix followed by a non-negative integer, the row carries that
\* integer, and so the work_id of every row is a non-negative integer.
C7_AcceptsOnlyCanonicalIds ==
    (Returned /\ work.v.id.tag = "str") =>
        /\ Canonical(work.v.id.v, work_prefix)
        /\ rowRes.row.work_id = CanonicalValue(work.v.id.v, work_prefix)
        /\ rowRes.row.work_id >= 0

-----------------------------------------------------------------------------
(* yield_output_df: the generator over the objects of the bucket *)

GzSuffix == <<".", "g", "z">>
KeyA     == <<"a", ".", "g", "z">>
KeyB     == <<"b", ".", "g", "z">>
Keys     == {KeyA, KeyB, <<"a", ".", "g", "z", ".", "t">>, <<"m">>}
\* lines of the ignore file: a key of the bucket, and the same key in upper case
IgnoreLines == {KeyA, Upper(KeyA)}

\* a line of an object: blank, or the JSON of one work
BlankLine    == [blank |-> TRUE]
WorkLine(w)  == [blank |-> FALSE, work |-> w]
MatchedLocation == Dict([source |-> Dict([EmptySource EXCEPT !.id = Str(SourcePrefixS \o <<"1">>)])])
LineWorks ==
    { WithKey(WithKey(Dict(EmptyWork), "id", Str(WorkPrefixW \o <<"1">>)),
              "locations", List(<<MatchedLocation>>)),
      WithKey(Dict(EmptyWork), "id", Str(WorkPrefixW \o <<"2">>)),
      WithKey(Dict(EmptyWork), "id", Str(<<"b", "a", "d">>)) }
Lines == {BlankLine} \cup {WorkLine(w) : w \in LineWorks}

\* an object is read when its key ends with .gz and is not on the ignore list
\* (list membership: exact string equality)
ObjectIsRead(key, ignore) == EndsWith(key, GzSuffix) /\ ~(key \in ignore)

\* a test that lets the batch grow one row past chunksize
BatchFullLate(rs, size) == Len(rs) > size

\* the batch is emitted once it holds chunksize rows
BatchFull(rs, size) == Len(rs) >= size

YieldInit ==
    /\ chunksize \in 1..MaxChunk
    /\ files_to_ignore \in SUBSET IgnoreLines
    /\ source_ids_matched = {1}
    /\ cur = <<>> /\ rows = <<>> /\ batches = <<>> /\ expected = <<>>
    /\ nobjs = 0 /\ nlines = 0 /\ ypc = "list"
    /\ RowIdle /\ MainIdle /\ IdsIdle /\ IssnIdle

\* the rows a record is due to contribute: one row when it comes from an object
\* with a .gz key that is off the ignore list and its id parses, none otherwise
DueRows(key, line) ==
    IF /\ EndsWith(key, GzSuffix) /\ \A l \in files_to_ignore : l # key
       /\ ~line.blank
       /\ get_row(line.work, source_ids_matched).kind = "row"
    THEN <<get_row(line.work, source_ids_matched).row>>
    ELSE <<>>

\* the listing hands over the next object
NextObject(key) ==
    /\ ypc = "list" /\ nobjs < MaxObjs
    /\ nobjs' = nobjs + 1
    /\ IF ObjectIsRead(key, files_to_ignore)
       THEN cur' = key /\ ypc' = "read"
       ELSE UNCHANGED <<cur, ypc>>
    /\ UNCHANGED <<chunksize, files_to_ignore, source_ids_matched, rows, batches,
                   expected, nlines>>
    /\ UNCHANGED <<rowVars, mainVars, idsVars, issnVars>>

\* one pass of the loop over the lines of the open object; when the batch is
\* full the generator hands a frame of rows to its consumer and is suspended
\* at the yield, rows still holding what the frame was built from
ReadLine(line) ==
    /\ ypc = "read" /\ nlines < MaxLines
    /\ nlines' = nlines + 1
    /\ expected' = expected \o DueRows(cur, line)
    /\ IF line.blank
       THEN UNCHANGED <<rows, batches, ypc>>
       ELSE LET row == get_row(line.work, source_ids_matched)
            IN  CASE row.kind = "raise" ->
                       ypc' = "raised" /\ UNCHANGED <<rows, batches>>
                  [] row.kind = "none" ->
                       UNCHANGED <<rows, batches, ypc>>
                  [] row.kind = "row" ->
                       /\ rows' = Append(rows, row.row)
                       /\ IF BatchFull(rows', chunksize)
                          THEN batches' = Append(batches, rows') /\ ypc' = "yielded"
                          ELSE UNCHANGED <<batches, ypc>>
    /\ UNCHANGED <<chunksize, files_to_ignore, source_ids_matched, cur, nobjs>>
    /\ UNCHANGED <<rowVars, mainVars, idsVars, issnVars>>

\* the consumer asks for the next batch: the generator resumes after the
\* yield, empties rows and goes back to the lines of the open object
ResumeAfterYield ==
    /\ ypc = "yielded"
    /\ rows' = <<>>
    /\ ypc' = "read"
    /\ UNCHANGED <<chunksize, files_to_ignore, source_ids_matched, cur, batches,
                   expected, nobjs, nlines>>
    /\ UNCHANGED <<rowVars, mainVars, idsVars, issnVars>>

\* the open object has no more lines
EndOfObject ==
    /\ ypc = "read"
    /\ ypc' = "list" /\ cur' = <<>>
    /\ UNCHANGED <<chunksize, files_to_ignore, source_ids_matched, rows, batches,
                   expected, nobjs, nlines>>
    /\ UNCHANGED <<rowVars, mainVars, idsVars, issnVars>>

\* the listing is exhausted: rows left over are handed over as the final
\* batch and the generator is suspended at that yield; with none left the
\* generator returns at once. rows is not emptied here.
FinalData ==
    /\ ypc = "list"
    /\ IF Len(rows) > 0
       THEN batches' = Append(batches, rows) /\ ypc' = "final"
       ELSE ypc' = "done" /\ UNCHANGED batches
    /\ UNCHANGED <<chunksize, files_to_ignore, source_ids_matched, cur, rows,
                   expected, nobjs, nlines>>
    /\ UNCHANGED <<rowVars, mainVars, idsVars, issnVars>>

\* the consumer asks for a batch after the final one: the generator returns
ReturnAfterFinal ==
    /\ ypc = "final"
    /\ ypc' = "done"
    /\ UNCHANGED <<chunksize, files_to_ignore, source_ids_matched, cur, rows,
                   batches, expected, nobjs, nlines>>
    /\ UNCHANGED <<rowVars, mainVars, idsVars, issnVars>>

YieldNext ==
    \/ \E key \in Keys : NextObject(key)
    \/ \E line \in Lines : ReadLine(line)
    \/ ResumeAfterYield
    \/ EndOfObject
    \/ FinalData
    \/ ReturnAfterFinal
SpecYield == YieldInit /\ [][YieldNext]_vars

-----------------------------------------------------------------------------
(* Properties of yield_output_df *)

RECURSIVE Concat(_)
Concat(bs) == IF bs = <<>> THEN <<>> ELSE bs[1] \o Concat(Tail(bs))

\* the generator is suspended at a yield, the consumer holding the last batch
Suspended == ypc \in {"yielded", "final"}

\* the last batch handed over
LastBatch == batches[Len(batches)]

\* C1: a record with a malformed work id is skipped without aborting the run:
\* the generator goes on to the following records, and the batches emitted by
\* the end hold exactly one row for each record whose id parses.
C1_MalformedIdSkipped ==
    /\ ypc # "raised"
    /\ (ypc = "done" => Concat(batches) = expected)

\* C10: every batch except the last holds exactly chunksize rows, the last
\* holds between 1 and chunksize rows, no empty batch is emitted (none at all
\* without valid rows), and the batches in emission order, followed by the rows
\* held and not yet handed over, are the rows of the valid records of the
\* objects read, in read order; objects on the ignore list or without the .gz
\* suffix give no row. While the generator is suspended at a yield, and after
\* it returned from the final one, rows is the batch just handed over.
C10_Batches ==
    /\ \A i \in 1..Len(batches) : Len(batches[i]) >= 1 /\ Len(batches[i]) <= chunksize
    /\ \A i \in 1..(Len(batches) - 1) : Len(batches[i]) = chunksize
    /\ (ypc \notin {"final", "done"} =>
            \A i \in 1..Len(batches) : Len(batches[i]) = chunksize)
    /\ (ypc \in {"list", "read", "raised"} =>
            Len(rows) < chunksize /\ Concat(batches) \o rows = expected)
    /\ (Suspended => rows = LastBatch /\ Concat(batches) = expected)
    /\ (ypc = "done" =>
            /\ Concat(batches) = expected
            /\ rows = <<>> \/ rows = LastBatch
            /\ expected = <<>> => batches = <<>>)

\* C10 witness: a finished run over several objects that emitted full batches,
\* was resumed after each, and emitted a shorter last one
C10_Witness ==
    /\ ypc = "done"
    /\ nobjs >= 2
    /\ Len(batches) >= 2
    /\ Len(batches[Len(batches)]) < chunksize
    /\ Len(batches[1]) = chunksize
    /\ rows = LastBatch
    /\ Concat(batches) = expected

-----------------------------------------------------------------------------
(* main: the loop that writes each batch to works_NNNN.parquet *)

\* str(n) for n >= 0
RECURSIVE Decimal(_)
Decimal(n) ==
    IF n < 10 THEN <<DigitChars[n + 1]>>
    ELSE Decimal(n \div 10) \o <<DigitChars[(n % 10) + 1]>>

\* format(n, "04"): zero-padded to at least four characters
RECURSIVE PadLeft(_, _)
PadLeft(s, width) == IF Len(s) >= width THEN s ELSE PadLeft(<<"0">> \o s, width)

\* f"works_{file_idx:04}.parquet"
FileName(idx) ==
    <<"w", "o", "r", "k", "s", "_">> \o PadLeft(Decimal(idx), 4)
        \o <<".", "p", "a", "r", "q", "u", "e", "t">>

\* a name of the same family that the format never produces
UnpaddedName ==
    <<"w", "o", "r", "k", "s", "_", "1", ".", "p", "a", "r", "q", "u", "e", "t">>

\* a path whose file exists always reports so
PathAlwaysFree(dir, name) == FALSE

\* outfp.exists()
PathExists(dir, name) == \E f \in dir : f.name = name

\* df.to_parquet(outfp): the file of that name is created or replaced
WriteFile(dir, name, run, batch) ==
    {f \in dir : f.name # name} \cup {[name |-> name, by |-> run, batch |-> batch]}

\* files left in the directory by earlier runs
PreFile(name) == [name |-> name, by |-> 0, batch |-> 0]
PreNames == {FileName(i) : i \in 0..(MaxPre - 1)} \cup {UnpaddedName}

\* the lowest index at or above from whose name is free in dir
LowestFree(dir, from) ==
    CHOOSE i \in from..(from + Cardinality(dir)) :
        /\ \A f \in dir : f.name # FileName(i)
        /\ \A j \in from..(i - 1) : \E f \in dir : f.name = FileName(j)

MainInitFor(runs) ==
    /\ \E pre \in SUBSET PreNames : files = {PreFile(n) : n \in pre}
    /\ file_idx = [r \in runs |-> 0]
    /\ from_idx = [r \in runs |-> 0]
    /\ nbatch = [r \in runs |-> 0]
    /\ mpc = [r \in runs |-> "next"]
    /\ wlog = <<>>
    /\ RowIdle /\ YieldIdle /\ IdsIdle /\ IssnIdle

\* the generator hands the next batch to the loop body
GetBatch(r) ==
    /\ mpc[r] = "next" /\ nbatch[r] < MaxBatches
    /\ from_idx' = [from_idx EXCEPT ![r] = file_idx[r]]
    /\ mpc' = [mpc EXCEPT ![r] = "probe"]
    /\ UNCHANGED <<files, file_idx, nbatch, wlog>>
    /\ UNCHANGED <<rowVars, yieldVars, idsVars, issnVars>>

\* the generator is exhausted
Exhausted(r) ==
    /\ mpc[r] = "next"
    /\ mpc' = [mpc EXCEPT ![r] = "done"]
    /\ UNCHANGED <<files, file_idx, from_idx, nbatch, wlog>>
    /\ UNCHANGED <<rowVars, yieldVars, idsVars, issnVars>>

\* one pass of the while loop: probe the name of the current index
Probe(r) ==
    /\ mpc[r] = "probe"
    /\ IF ~PathExists(files, FileName(file_idx[r]))
       THEN mpc' = [mpc EXCEPT ![r] = "write"] /\ UNCHANGED file_idx
       ELSE file_idx' = [file_idx EXCEPT ![r] = file_idx[r] + 1] /\ UNCHANGED mpc
    /\ UNCHANGED <<files, from_idx, nbatch, wlog>>
    /\ UNCHANGED <<rowVars, yieldVars, idsVars, issnVars>>

\* the batch is written to the name the loop stopped at
WriteBatch(r) ==
    /\ mpc[r] = "write"
    /\ files' = WriteFile(files, FileName(file_idx[r]), r, nbatch[r] + 1)
    /\ wlog' = Append(wlog,
                  [run |-> r, idx |-> file_idx[r], from |-> from_idx[r],
                   existed |-> \E f \in files : f.name = FileName(file_idx[r]),
                   free |-> LowestFree(files, from_idx[r])])
    /\ nbatch' = [nbatch EXCEPT ![r] = nbatch[r] + 1]
    /\ mpc' = [mpc EXCEPT ![r] = "next"]
    /\ UNCHANGED <<file_idx, from_idx>>
    /\ UNCHANGED <<rowVars, yieldVars, idsVars, issnVars>>

MainNext ==
    \/ \E r \in DOMAIN mpc : GetBatch(r)
    \/ \E r \in DOMAIN mpc : Exhausted(r)
    \/ \E r \in DOMAIN mpc : Probe(r)
    \/ \E r \in DOMAIN mpc : WriteBatch(r)

\* one run of main over the output directory
SpecMain == MainInitFor({1}) /\ [][MainNext]_vars
\* two runs of main, as two processes, over the same output directory
SpecTwoRuns == MainInitFor({1, 2}) /\ [][MainNext]_vars

-----------------------------------------------------------------------------
(* Properties of main *)

\* every batch written so far is in a file of its own
EveryBatchHasItsFile ==
    \A r \in DOMAIN nbatch : \A b \in 1..nbatch[r] :
        \E f \in files : f.by = r /\ f.batch = b

\* C4: in a single run every batch is written to a name that did not exist at
\* the moment of the write, so no earlier file is overwritten; the batch goes
\* to the lowest free index not below the index the run had reached, and the
\* indices the run uses are strictly increasing.
C4_NeverOverwrites ==
    /\ \A k \in 1..Len(wlog) :
          /\ ~wlog[k].existed
          /\ wlog[k].idx >= wlog[k].from
          /\ wlog[k].idx = wlog[k].free
          /\ \A j \in 1..(k - 1) : wlog[j].idx < wlog[k].idx
    /\ EveryBatchHasItsFile

\* C4 witness: works_0000.parquet was there before the run, the first batch
\* went to a later index, and a second batch followed it
C4_Witness ==
    /\ DOMAIN mpc = {1} /\ mpc[1] = "done"
    /\ PreFile(FileName(0)) \in files
    /\ Len(wlog) >= 2
    /\ wlog[1].from = 0 /\ wlog[1].idx > 0
    /\ wlog[2].idx > wlog[1].idx

\* C5: with two runs writing to the same directory, under every interleaving of
\* their probes and writes, neither overwrites a file of the other: every batch
\* of both runs ends up in its own file.
C5_ConcurrentRunsNeverClobber ==
    /\ \A k \in 1..Len(wlog) : ~wlog[k].existed
    /\ EveryBatchHasItsFile

-----------------------------------------------------------------------------
(* get_source_ids_matched: the file of matched source ids *)

TxtChars == {"S", "1", "2", " ", "", "\r", "\n"}

\* int(item.strip().replace("S", "")) for every item of the split, in order;
\* the first ValueError ends the call
RECURSIVE IdsOfItems(_, _)
IdsOfItems(items, acc) ==
    IF items = <<>> THEN [kind |-> "set", v |-> {acc[i] : i \in 1..Len(acc)}]
    ELSE LET source_id == Remove(Strip(items[1]), <<"S">>)
             n == PyInt(source_id)
         IN  IF ~n.ok THEN Raise("ValueError")
             ELSE IdsOfItems(Tail(items), Append(acc, n.v))

\* fp.read_text(): the file is opened in text mode, where "\r\n" and a lone
\* "\r" both read as "\n"
RECURSIVE ReadText(_)
ReadText(s) ==
    IF s = <<>> THEN <<>>
    ELSE IF s[1] = "\r"
         THEN <<"\n">> \o ReadText(IF Len(s) >= 2 /\ s[2] = "\n" THEN From(s, 3) ELSE Tail(s))
         ELSE <<s[1]>> \o ReadText(Tail(s))

\* the call on a file of the given content
get_source_ids_matched(content) ==
    LET txt == ReadText(content)
    IN  IdsOfItems(SplitLines(txt), <<>>)

IdsInit ==
    /\ fp \in SeqsUpTo(TxtChars, MaxTxt)
    /\ idsRes = Pending /\ ipc = "call"
    /\ RowIdle /\ YieldIdle /\ MainIdle /\ IssnIdle

CallGetSourceIdsMatched ==
    /\ ipc = "call"
    /\ idsRes' = get_source_ids_matched(fp)
    /\ ipc' = "done"
    /\ UNCHANGED <<fp, rowVars, yieldVars, mainVars, issnVars>>

IdsNext == CallGetSourceIdsMatched
SpecIds == IdsInit /\ [][IdsNext]_vars

-----------------------------------------------------------------------------
(* Properties of get_source_ids_matched *)

\* the lines of a text file: the text up to each line end ("\n", "\r\n" or
\* "\r"), and the text after the last line end when there is any
FileLines(content) ==
    LET parts == SplitLines(ReadText(content))
    IN  IF parts[Len(parts)] = <<>> THEN SubSeq(parts, 1, Len(parts) - 1) ELSE parts

\* a line that names an identifier: S and one or more digits, with optional
\* blanks around them
IdLine(line) ==
    LET t == Strip(line)
    IN  /\ Len(t) >= 2 /\ t[1] = "S"
        /\ \A i \in 2..Len(t) : IsDigit(t[i])
IdOfLine(line) == DigitsValue(Tail(Strip(line)), 0)

WellFormedIdFile(content) ==
    /\ FileLines(content) # <<>>
    /\ \A i \in 1..Len(FileLines(content)) : IdLine(FileLines(content)[i])

\* C8: for a file with one identifier S<digits> per line, with optional
\* whitespace around it and with or without a newline after the last line,
\* get_source_ids_matched returns exactly the integers named on the lines and
\* does not raise.
C8_ReadsEveryIdFile ==
    (ipc = "done" /\ WellFormedIdFile(fp)) =>
        /\ idsRes.kind = "set"
        /\ idsRes.v = {IdOfLine(FileLines(fp)[i]) : i \in 1..Len(FileLines(fp))}

-----------------------------------------------------------------------------
(* The ISSN matcher: melt, normalise and deduplicate the Scopus ISSNs *)

NaN == [tag |-> "nan"]
\* cells as the Scopus list may hold them: one ISSN in two spellings, and a
\* cell that str.upper() lengthens
RawIssns ==
    { <<"0", "0", "0", "1", "0", "0", "0", "x">>,
      <<"0", "0", "0", "1", "-", "0", "0", "0", "X">>,
      <<"0", "0", "0", "1", "0", "0", "0", "ß">> }
IssnCells == {NaN} \cup {Str(t) : t \in RawIssns}
ScopusIds == {1, 2, 3}
ScopusRows ==
    [scopus_id : ScopusIds, print_issn : IssnCells, e_issn : IssnCells]

\* x[:4], x[-4:]
FirstFour(x) == SubSeq(x, 1, IF Len(x) < 4 THEN Len(x) ELSE 4)
LastFour(x) == SubSeq(x, IF Len(x) < 4 THEN 1 ELSE Len(x) - 3, Len(x))

\* f'{x[:4]}-{x[-4:]}'.upper()
NormaliseIssn(x) == Upper(FirstFour(x) \o <<"-">> \o LastFour(x))

\* one value column of the melt: a long row per table row, in table order
RECURSIVE MeltColumn(_, _)
MeltColumn(df, variable) ==
    IF df = <<>> THEN <<>>
    ELSE <<[scopus_id |-> df[1].scopus_id, variable |-> variable,
            value |-> IF variable = "Print-ISSN" THEN df[1].print_issn ELSE df[1].e_issn]>>
         \o MeltColumn(Tail(df), variable)

\* df.melt(id_vars=['scopus_id'], value_vars=['Print-ISSN', 'E-ISSN'])
Melt(df) == MeltColumn(df, "Print-ISSN") \o MeltColumn(df, "E-ISSN")

\* .dropna(subset=['value'])
DropNa(long) == SelectSeq(long, LAMBDA r : r.value.tag # "nan")

\* the value column replaced by its normalised form
NormaliseValues(long) ==
    [i \in 1..Len(long) |-> [long[i] EXCEPT !.value = NormaliseIssn(long[i].value.v)]]

\* the orders of the rows at the indices I that put no row before one of a
\* larger (lower = FALSE) or smaller (lower = TRUE) scopus_id
RECURSIVE OrdersBy(_, _, _)
OrdersBy(long, I, lower) ==
    IF I = {} THEN {<<>>}
    ELSE LET first == {i \in I : \A j \in I :
                          IF lower THEN long[i].scopus_id <= long[j].scopus_id
                          ELSE long[i].scopus_id >= long[j].scopus_id}
         IN  UNION {{<<long[i]>> \o rest : rest \in OrdersBy(long, I \ {i}, lower)} :
                       i \in first}

\* a sort that puts the lowest scopus_id first
SortAscending(long) == OrdersBy(long, 1..Len(long), TRUE)

\* .sort_values('scopus_id', ascending=False): the sort is not stable, so rows
\* of equal scopus_id may come out in any order
SortDescending(long) == OrdersBy(long, 1..Len(long), FALSE)

\* .drop_duplicates(subset=['value']): the first row of each value is kept
RECURSIVE DropDuplicates(_, _)
DropDuplicates(long, seen) ==
    IF long = <<>> THEN <<>>
    ELSE IF long[1].value \in seen THEN DropDuplicates(Tail(long), seen)
    ELSE <<long[1]>> \o DropDuplicates(Tail(long), seen \cup {long[1].value})

IssnInit ==
    /\ df_scopus \in SeqsUpTo(ScopusRows, MaxRows)
    /\ issnRes = Pending /\ spc = "call"
    /\ RowIdle /\ YieldIdle /\ MainIdle /\ IdsIdle

\* lines 47 to 56 of main
DeduplicateIssns ==
    /\ spc = "call"
    /\ issnRes' \in
          {[kind |-> "frame", rows |-> DropDuplicates(sorted, {})] :
              sorted \in SortDescending(NormaliseValues(DropNa(Melt(df_scopus))))}
    /\ spc' = "done"
    /\ UNCHANGED <<df_scopus, rowVars, yieldVars, mainVars, idsVars>>

IssnNext == DeduplicateIssns
SpecIssn == IssnInit /\ [][IssnNext]_vars

-----------------------------------------------------------------------------
(* Properties of the ISSN deduplication *)

\* the (scopus_id, normalised ISSN) pairs of a Scopus table, over both columns
IssnPairs(df) ==
    {[scopus_id |-> df[i].scopus_id, value |-> NormaliseIssn(df[i].print_issn.v)] :
        i \in {j \in 1..Len(df) : df[j].print_issn.tag = "str"}}
    \cup
    {[scopus_id |-> df[i].scopus_id, value |-> NormaliseIssn(df[i].e_issn.v)] :
        i \in {j \in 1..Len(df) : df[j].e_issn.tag = "str"}}

\* the highest scopus_id a set of pairs gives for a value
HighestId(pairs, value) ==
    LET ids == {p.scopus_id : p \in {q \in pairs : q.value = value}}
    IN  CHOOSE n \in ids : \A m \in ids : m <= n

\* C9: after deduplication each normalised ISSN is in exactly one row, that row
\* carries the highest scopus_id among the Scopus rows (Print-ISSN or E-ISSN)
\* sharing the ISSN, and no ISSN present before the deduplication is lost.
C9_HighestScopusIdKept ==
    spc = "done" =>
        LET pairs == IssnPairs(df_scopus)
            kept  == issnRes.rows
        IN  /\ {kept[i].value : i \in 1..Len(kept)} = {p.value : p \in pairs}
            /\ \A i, j \in 1..Len(kept) : kept[i].value = kept[j].value => i = j
            /\ \A i \in 1..Len(kept) : kept[i].scopus_id = HighestId(pairs, kept[i].value)

\* C9 witness: two Scopus rows of different scopus_id share an ISSN, one in its
\* Print-ISSN and the other in its E-ISSN under another spelling, the row of
\* the lower id comes first, and the ISSN is kept once with the higher id
C9_Witness ==
    /\ spc = "done"
    /\ Len(df_scopus) = 2
    /\ df_scopus[1].scopus_id < df_scopus[2].scopus_id
    /\ df_scopus[1].print_issn.tag = "str" /\ df_scopus[2].e_issn.tag = "str"
    /\ df_scopus[1].print_issn # df_scopus[2].e_issn
    /\ NormaliseIssn(df_scopus[1].print_issn.v) = NormaliseIssn(df_scopus[2].e_issn.v)
    /\ \E i \in 1..Len(issnRes.rows) :
          /\ issnRes.rows[i].value = NormaliseIssn(df_scopus[1].print_issn.v)
          /\ issnRes.rows[i].scopus_id = df_scopus[2].scopus_id

=============================================================================
